---- MODULE Spec2Model ----
(***************************************************************************)
(* Model of the ski-resort dashboard front end:                            *)
(*   - calcAverages (frontend/src/lib/calc-averages.ts), the per-resort     *)
(*     aggregation of camera ratings into field averages and a composite,   *)
(*   - App (App.tsx): fetchData, the results/loading/error state, the       *)
(*     sortedResorts computation of a render and the rank given to a card,  *)
(*   - ResortCard (frontend/src/components/ResortCard.tsx): the camera      *)
(*     count and the score grid of a card.                                  *)
(*                                                                         *)
(* JavaScript numbers are modelled as exact rationals num/den in lowest     *)
(* terms; NaN is the record 0/0.  JSON values carry a type tag so that the  *)
(* typeof / null tests of the code are tests of the tag.                    *)
(***************************************************************************)
EXTENDS Integers, Sequences, FiniteSets, TLC

\* ---------------------------------------------------------------- bounds
\* longest camera list enumerated for a direct call of calcAverages
MaxCams == 2
\* most resorts in a results document
MaxResorts == 3
\* most invocations of fetchData followed (the first one and the retries)
MaxFetches == 3
\* most runs of the App function on an unchanged state followed
MaxRerenders == 2
\* most calls of calcAverages followed in a sequence of calls
MaxCalls == 3

\* ------------------------------------------------------------ JSON values
Null == [t |-> "null", v |-> 0]
Undefined == [t |-> "undefined", v |-> 0]
Str == [t |-> "string", v |-> 0]
Num(n) == [t |-> "number", v |-> n]

\* ------------------------------------------------------- number arithmetic
RECURSIVE GCD(_, _)
GCD(a, b) == IF b = 0 THEN a ELSE GCD(b, a % b)

NaN == [num |-> 0, den |-> 0]
Rat(n, d) == LET g == GCD(n, d) IN [num |-> n \div g, den |-> d \div g]
Zero == Rat(0, 1)

IsNaN(x) == x.den = 0

\* a + b of two numbers
NumAdd(x, y) ==
    IF IsNaN(x) \/ IsNaN(y) THEN NaN
    ELSE Rat(x.num * y.den + y.num * x.den, x.den * y.den)

\* x / n for a length n; 0 / 0 is NaN
NumDiv(x, n) ==
    IF IsNaN(x) \/ n = 0 THEN NaN ELSE Rat(x.num, x.den * n)

\* sign of x - y: -1, 0, 1, and "NaN" (as 2) when either side is NaN
NumSubSign(x, y) ==
    IF IsNaN(x) \/ IsNaN(y) THEN 2
    ELSE LET l == x.num * y.den
             r == y.num * x.den
         IN IF l < r THEN -1 ELSE IF l > r THEN 1 ELSE 0

\* ------------------------------------------------------------ the fields
SnowDepthKey == "snow_depth_inches"
\* another spelling of the snow-depth key
OtherSnowDepthKey == "snow_depth"
CategoryKeys ==
    {"quality", "weather", "visibility", "crowdedness", SnowDepthKey, "composite",
     OtherSnowDepthKey}
FieldNames == {"confidence"} \cup CategoryKeys

\* a categories object: a value for every key, Undefined where the key is
\* not an own property of the object
CategoriesObject(q, w, s) ==
    [t |-> "object",
     m |-> [k \in CategoryKeys |->
              IF k = "quality" THEN q
              ELSE IF k = "weather" THEN w
              ELSE IF k = SnowDepthKey THEN s
              ELSE Undefined]]
\* a categories object with the given entries and no other key
CategoriesOf(entries) ==
    [t |-> "object",
     m |-> [k \in CategoryKeys |-> IF k \in DOMAIN entries THEN entries[k] ELSE Undefined]]
NoCategories == [t |-> "undefined", m |-> [k \in CategoryKeys |-> Undefined]]

RatingObject(conf, cats) == [t |-> "object", confidence |-> conf, categories |-> cats]
NoRating(tag) == [t |-> tag, confidence |-> Undefined, categories |-> NoCategories]

Camera(r) == [rating |-> r, error |-> Null]
\* a camera with only an error message
FailedCamera == [rating |-> NoRating("null"), error |-> Str]

\* ------------------------------------------------------------ calcAverages
\* cameras.filter(c => c.rating !== null && c.rating !== undefined).map(c => c.rating)
ratingsOf(cameras) ==
    LET kept == SelectSeq(cameras, LAMBDA c : c.rating.t # "null" /\ c.rating.t # "undefined")
    IN [i \in 1..Len(kept) |-> kept[i].rating]

\* if (rating.confidence != null) fieldValues["confidence"].push(rating.confidence)
pushConfidence_nullAsZero(list, rating) ==
    IF rating.confidence.t \in {"null", "undefined"}
    THEN Append(list, Num(0))
    ELSE Append(list, rating.confidence)

pushConfidence(list, rating) ==
    IF rating.confidence.t \notin {"null", "undefined"}
    THEN Append(list, rating.confidence)
    ELSE list

\* const categories = rating.categories || {}
categoriesOf(rating) ==
    IF rating.categories.t = "object"
    THEN rating.categories.m
    ELSE [k \in CategoryKeys |-> Undefined]

\* the keys Object.entries(categories) goes through
entryKeys(categories) == {k \in DOMAIN categories : categories[k].t # "undefined"}

\* if (typeof value === "number" && value != null) fieldValues[key].push(value)
pushCategory_nullAsZero(list, value) ==
    IF value.t = "number" THEN Append(list, value)
    ELSE IF value.t = "null" THEN Append(list, Num(0))
    ELSE list

pushCategory(list, value) ==
    IF value.t = "number" THEN Append(list, value) ELSE list

\* fieldValues[field] after the loop over the ratings; a field whose list is
\* empty is a key that was never created
RECURSIVE collectField(_, _)
collectField(ratings, field) ==
    IF ratings = <<>> THEN <<>>
    ELSE LET prev == collectField(SubSeq(ratings, 1, Len(ratings) - 1), field)
             rating == ratings[Len(ratings)]
             categories == categoriesOf(rating)
         IN IF field = "confidence"
            THEN pushConfidence(prev, rating)
            ELSE IF field \in entryKeys(categories)
                 THEN pushCategory(prev, categories[field])
                 ELSE prev

fieldValuesOf(ratings) == [f \in FieldNames |-> collectField(ratings, f)]

\* vals.reduce((a, b) => a + b, 0): a string among the values turns the sum
\* into a string, which the division then turns into NaN
RECURSIVE reduceSum(_)
reduceSum(vals) ==
    IF vals = <<>> THEN Zero
    ELSE LET last == vals[Len(vals)]
             rest == reduceSum(SubSeq(vals, 1, Len(vals) - 1))
         IN IF last.t = "number" THEN NumAdd(rest, Rat(last.v, 1)) ELSE NaN

\* avg[field] = vals.reduce(...) / vals.length
RECURSIVE runningMean(_)
runningMean(vals) ==
    IF vals = <<>> THEN Zero
    ELSE LET last == vals[Len(vals)]
             rest == runningMean(SubSeq(vals, 1, Len(vals) - 1))
         IN IF last.t = "number" THEN NumDiv(NumAdd(rest, Rat(last.v, 1)), 2) ELSE NaN

fieldMean_running(vals) == runningMean(vals)

fieldMean_sum(vals) == reduceSum(vals)

fieldMean(vals) == NumDiv(reduceSum(vals), Len(vals))

\* the avg object before composite is assigned
averagesOf(fieldValues) ==
    [f \in {g \in DOMAIN fieldValues : fieldValues[g] # <<>>} |-> fieldMean(fieldValues[f])]

\* Object.entries(avg).filter(([k]) => k !== "snow_depth_inches")
categoryScoreKeys_withSnowDepth(avg) == DOMAIN avg

categoryScoreKeys_anySnowDepth(avg) ==
    {k \in DOMAIN avg : k \notin {SnowDepthKey, OtherSnowDepthKey}}

categoryScoreKeys(avg) == {k \in DOMAIN avg : k # SnowDepthKey}

RECURSIVE sumScores(_, _)
sumScores(avg, keys) ==
    IF keys = {} THEN Zero
    ELSE LET k == CHOOSE x \in keys : TRUE
         IN NumAdd(sumScores(avg, keys \ {k}), avg[k])

\* categoryScores.length > 0 ? categoryScores.reduce(...) / categoryScores.length : 0
compositeOf_noLengthGuard(avg) ==
    LET keys == categoryScoreKeys(avg)
    IN NumDiv(sumScores(avg, keys), Cardinality(keys))

compositeOf_snowDepthFallback(avg) ==
    LET keys == categoryScoreKeys(avg)
    IN IF Cardinality(keys) > 0
       THEN NumDiv(sumScores(avg, keys), Cardinality(keys))
       ELSE NumDiv(sumScores(avg, DOMAIN avg), Cardinality(DOMAIN avg))

compositeOf(avg) ==
    LET keys == categoryScoreKeys(avg)
    IN IF Cardinality(keys) > 0
       THEN NumDiv(sumScores(avg, keys), Cardinality(keys))
       ELSE Zero

\* all the values of the non-snow-depth fields, in one list
RECURSIVE flatten(_, _)
flatten(fieldValues, keys) ==
    IF keys = {} THEN <<>>
    ELSE LET k == CHOOSE x \in keys : TRUE
         IN flatten(fieldValues, keys \ {k}) \o fieldValues[k]

calcAverages_flatComposite(cameras) ==
    LET ratings == ratingsOf(cameras)
    IN IF Len(ratings) = 0
       THEN [k \in {"composite"} |-> Zero]
       ELSE LET fieldValues == fieldValuesOf(ratings)
                avg == averagesOf(fieldValues)
                all == flatten(fieldValues, categoryScoreKeys(avg))
            IN [k \in DOMAIN avg \cup {"composite"} |->
                  IF k = "composite"
                  THEN (IF all = <<>> THEN Zero ELSE fieldMean(all))
                  ELSE avg[k]]

calcAverages(cameras) ==
    LET ratings == ratingsOf(cameras)
    IN IF Len(ratings) = 0
       THEN [k \in {"composite"} |-> Zero]
       ELSE LET fieldValues == fieldValuesOf(ratings)
                avg == averagesOf(fieldValues)
            IN [k \in DOMAIN avg \cup {"composite"} |->
                  IF k = "composite" THEN compositeOf(avg) ELSE avg[k]]

\* reading a property of null or undefined (rating.confidence,
\* rating.categories) raises a TypeError
propertyReadThrows(object) == object.t \in {"null", "undefined"}

\* Object.entries(null) and Object.entries(undefined) raise a TypeError
objectEntriesThrows(object) == object.t \in {"null", "undefined"}

\* rating.categories || {}, as the value handed to Object.entries
categoriesOrEmpty_noDefault(rating) == rating.categories

categoriesOrEmpty(rating) ==
    IF rating.categories.t = "object"
    THEN rating.categories
    ELSE [t |-> "object", m |-> [k \in CategoryKeys |-> Undefined]]

\* whether the call raises an exception instead of returning
calcAveragesThrows(cameras) ==
    LET ratings == ratingsOf(cameras)
    IN \E i \in 1..Len(ratings) :
          \/ propertyReadThrows(ratings[i])
          \/ objectEntriesThrows(categoriesOrEmpty(ratings[i]))

\* const fieldValues: Record<string, number[]> = {}: every call starts from
\* an object of its own, whatever the calls before it collected
emptyFieldValues == [f \in FieldNames |-> <<>>]

newFieldValues_shared(previous) == previous

newFieldValues(previous) == emptyFieldValues

\* one call of calcAverages, with the fieldValues object the call before it
\* left behind: what it returns and the object it leaves behind
calcAveragesCall(previous, cameras) ==
    LET ratings == ratingsOf(cameras)
    IN IF Len(ratings) = 0
       THEN [fieldValues |-> previous, result |-> [k \in {"composite"} |-> Zero]]
       ELSE LET start == newFieldValues(previous)
                fieldValues == [f \in FieldNames |-> start[f] \o collectField(ratings, f)]
                avg == averagesOf(fieldValues)
            IN [fieldValues |-> fieldValues,
                result |-> [k \in DOMAIN avg \cup {"composite"} |->
                              IF k = "composite" THEN compositeOf(avg) ELSE avg[k]]]

\* ----------------------------------------------------- enumerated inputs
Cam(conf, q, w, s) == Camera(RatingObject(conf, CategoriesObject(q, w, s)))

\* cameras with a rating object whose values have the declared types
\* (types.ts), a key being present or not
TypedCameras ==
    {Cam(conf, q, w, s) : conf \in {Null, Num(6)},
                          q \in {Undefined, Num(4), Num(8)},
                          w \in {Undefined, Num(6)},
                          s \in {Undefined, Num(40)}}

\* cameras without a rating (key absent, or null), ratings without a
\* categories object, and category values that are null or not a number
OddCameras ==
    {Camera(NoRating("undefined")), Camera(NoRating("null")),
     Camera(RatingObject(Null, NoCategories)),
     Camera(RatingObject(Num(6), NoCategories)),
     Cam(Null, Null, Undefined, Undefined),
     Cam(Null, Null, Num(6), Null),
     Cam(Num(6), Num(8), Null, Undefined),
     Cam(Null, Str, Undefined, Undefined),
     Cam(Null, Num(4), Str, Num(40)),
     FailedCamera}

Cameras == TypedCameras \cup OddCameras

\* quality samples [9, 9] and a single weather sample [1]
ExampleMeanOfMeans ==
    <<Cam(Null, Num(9), Num(1), Undefined), Cam(Null, Num(9), Undefined, Undefined)>>
\* camera A {quality: 8}, camera B {quality: 4, weather: 6}
ExamplePartial ==
    <<Cam(Null, Num(8), Undefined, Undefined), Cam(Null, Num(4), Num(6), Undefined)>>
\* one camera {quality: 8, snow depth: 40}
ExampleSnowDepth == <<Cam(Null, Num(8), Undefined, Num(40))>>

CameraLists ==
    UNION {[1..n -> Cameras] : n \in 0..MaxCams} \cup {ExampleMeanOfMeans}

\* cameras beyond the declared types and the usual keys: a confidence that
\* is a string, a category named composite, ratings with the four
\* categories of the README, and a snow depth under the key snow_depth
WideCameras ==
    {Camera(RatingObject(Str, CategoriesObject(Num(8), Undefined, Undefined))),
     Camera(RatingObject(Str, NoCategories)),
     Camera(RatingObject(Null, CategoriesOf([quality |-> Num(8), composite |-> Num(2)]))),
     Camera(RatingObject(Num(6), CategoriesOf([composite |-> Num(4)]))),
     Camera(RatingObject(Null, CategoriesOf([quality |-> Num(8), weather |-> Num(6),
                                             visibility |-> Num(4), crowdedness |-> Num(2)]))),
     Camera(RatingObject(Num(6), CategoriesOf([quality |-> Num(4), weather |-> Num(6),
                                               visibility |-> Num(10), crowdedness |-> Num(8)]))),
     Cam(Num(6), Num(4), Undefined, Undefined),
     Cam(Null, Num(8), Undefined, Num(40)),
     Cam(Null, Str, Num(6), Undefined),
     Camera(NoRating("null")),
     Camera(RatingObject(Null, CategoriesOf([quality |-> Num(8), snow_depth |-> Num(40)]))),
     Camera(RatingObject(Null, CategoriesOf([quality |-> Num(8), snow_depth_inches |-> Num(40),
                                             snow_depth |-> Num(30)])))}

WideCameraLists == UNION {[1..n -> WideCameras] : n \in 0..MaxCams}

\* ------------------------------------------------- the results document
Resort(key, cams) == [resort_key |-> key, cameras |-> cams]

\* camera lists of the resorts of a document; their composites are
\* 0, 0, 7, 7, 9, 5 and 20/3
ResortCameraLists ==
    {<<>>,
     <<Camera(NoRating("null"))>>,
     <<Cam(Null, Num(8), Num(6), Num(40))>>,
     <<Cam(Num(6), Num(8), Undefined, Undefined)>>,
     <<Cam(Null, Num(9), Undefined, Undefined), Camera(NoRating("null"))>>,
     ExampleMeanOfMeans,
     <<Cam(Num(6), Num(8), Num(6), Undefined)>>}

\* results.resorts of a parsed document: resort i of the input has key i
Documents ==
    UNION {{[i \in 1..n |-> Resort(i, f[i])] : f \in [1..n -> ResortCameraLists]} : n \in 0..MaxResorts}

\* messages of the errors fetchData catches: a rejected fetch, a status
\* that is not OK, a body that does not parse
NullError == "null"
FetchRejectedMessage == "Failed to fetch"
StatusMessage(status) == IF status = 404 THEN "Failed to fetch: 404" ELSE "Failed to fetch: 500"
JsonErrorMessage == "Unexpected token < in JSON at position 0"
FailureStatuses == {404, 500}

\* ------------------------------------------------------------------ state
VARIABLES
    cameras,        \* the argument of a direct call of calcAverages
    called,         \* whether that call has returned
    averages,       \* what it returned
    fieldValues,    \* the fieldValues object the last call of a sequence left behind
    calls,          \* a sequence of calls: the argument and the result of each
    card,           \* a ResortCard rendered on its own for the resort of cameras
    results,        \* App state: null, or the document (its resorts array is heap.resorts)
    loading,        \* App state
    error,          \* App state: NullError or a message
    mounted,        \* whether the effect of the first render has run
    fetchPc,        \* where the fetchData in flight is: idle, fetch, json
    fetchCount,     \* how many times fetchData has been invoked
    rerenders,      \* how many times App has run again on an unchanged state
    document,       \* the resorts of the last parsed body, as they were parsed
    heap,           \* the arrays: resorts (of the document), copy (of the last render)
    sortedResorts,  \* the array the last render sorted (a key of heap)
    view            \* what the last render displayed

calcVars == <<cameras, called, averages, fieldValues, calls, card>>
appVars == <<results, loading, error, mounted, fetchPc, fetchCount, rerenders,
            document, heap, sortedResorts, view>>
vars == <<cameras, called, averages, fieldValues, calls, card, results, loading, error, mounted, fetchPc,
          fetchCount, rerenders, document, heap, sortedResorts, view>>

NotCalled == [k \in {"composite"} |-> NaN]
\* the outcome of a call that raised an exception
TypeError == [k \in {"TypeError"} |-> NaN]

\* ------------------------------------------------------------- App render
NoResults == [t |-> "null", resorts |-> "none"]
LoadedResults == [t |-> "object", resorts |-> "resorts"]

\* (a, b) => calcAverages(b.cameras).composite - calcAverages(a.cameras).composite,
\* as its sign; sort reads a NaN as 0
compareFn_ascending(a, b) ==
    LET avgA == calcAverages(a.cameras)
        avgB == calcAverages(b.cameras)
        sign == NumSubSign(avgA["composite"], avgB["composite"])
    IN IF sign = 2 THEN 0 ELSE sign

compareFn(a, b) ==
    LET avgA == calcAverages(a.cameras)
        avgB == calcAverages(b.cameras)
        sign == NumSubSign(avgB["composite"], avgA["composite"])
    IN IF sign = 2 THEN 0 ELSE sign

\* Array.prototype.sort is stable: x moves in front of e only when e has to
\* come after x
movesInFront_unstable(e, x) == compareFn(e, x) >= 0

movesInFront(e, x) == compareFn(e, x) > 0

RECURSIVE insertSorted(_, _)
insertSorted(sorted, x) ==
    IF sorted = <<>> THEN <<x>>
    ELSE LET e == sorted[Len(sorted)]
         IN IF movesInFront(e, x)
            THEN Append(insertSorted(SubSeq(sorted, 1, Len(sorted) - 1), x), e)
            ELSE Append(sorted, x)

RECURSIVE arraySort(_)
arraySort(arr) ==
    IF arr = <<>> THEN <<>>
    ELSE insertSorted(arraySort(SubSeq(arr, 1, Len(arr) - 1)), arr[Len(arr)])

\* [...results.resorts] is a new array
spreadRef_alias(src) == src

spreadRef(src) == "copy"

\* const sortedResorts = results ? [...results.resorts].sort(...) : []
sortResorts(res, h) ==
    IF res.t = "null"
    THEN [heap |-> [h EXCEPT !["copy"] = <<>>], ref |-> "copy"]
    ELSE LET ref == spreadRef(res.resorts)
             spread == [h EXCEPT ![ref] = h[res.resorts]]
         IN [heap |-> [spread EXCEPT ![ref] = arraySort(spread[ref])], ref |-> ref]

\* rank={index + 1}, index counted from 0
rankOf_zeroBased(index) == index

rankOf(index) == index + 1

\* ----------------------------------------------------------- ResortCard
\* value.toFixed(1): the number rounded to tenths, as a count of tenths
toFixed1(x) ==
    IF IsNaN(x) THEN [t |-> "NaN", tenths |-> 0]
    ELSE [t |-> "decimal", tenths |-> (20 * x.num + x.den) \div (2 * x.den)]

\* getScoreColor(score); a comparison with NaN is false
getScoreColor(score) ==
    IF NumSubSign(score, Rat(8, 1)) \in {0, 1} THEN "text-green-600"
    ELSE IF NumSubSign(score, Rat(6, 1)) \in {0, 1} THEN "text-blue-600"
    ELSE IF NumSubSign(score, Rat(4, 1)) \in {0, 1} THEN "text-yellow-600"
    ELSE "text-red-600"

\* resort.cameras.filter((c) => c.rating !== null).length
successfulCameras(cams) ==
    Cardinality({i \in 1..Len(cams) : cams[i].rating.t # "null"})

\* .filter(([key]) => key !== "composite" && key !== "snow_depth_inches")
gridKeys_withComposite(avg) == {key \in DOMAIN avg : key # SnowDepthKey}

gridKeys(avg) == {key \in DOMAIN avg : key # "composite" /\ key # SnowDepthKey}

\* one tile of the score grid
tileOf(value) == [text |-> toFixed1(value), color |-> getScoreColor(value)]

NoTiles == [key \in {} |-> tileOf(Zero)]

\* what ResortCard renders for a resort, a rank and its expanded state: the
\* "n/m cameras analyzed" line always, the overall score and the grid when
\* expanded
ResortCard(resort, rank, expanded) ==
    LET avg == calcAverages(resort.cameras)
    IN [resort_key |-> resort.resort_key,
        rank |-> rank,
        avg |-> avg,
        successfulCameras |-> successfulCameras(resort.cameras),
        cameraCount |-> Len(resort.cameras),
        expanded |-> expanded,
        overall |-> IF expanded THEN <<tileOf(avg["composite"])>> ELSE <<>>,
        tiles |-> IF expanded THEN [key \in gridKeys(avg) |-> tileOf(avg[key])] ELSE NoTiles]

\* <ResortCard resort={resort} rank={index + 1} />, with the avg the card computes
cardsOf_flatComposite(sorted) ==
    [i \in 1..Len(sorted) |->
        [resort_key |-> sorted[i].resort_key,
         rank |-> rankOf(i - 1),
         avg |-> calcAverages_flatComposite(sorted[i].cameras)]]

cardsOf(sorted) ==
    [i \in 1..Len(sorted) |-> ResortCard(sorted[i], rankOf(i - 1), FALSE)]

\* the conditional sections of the page
viewOf_noErrorTest(ld, err, sorted) ==
    [loadingShown |-> ld,
     errorShown |-> err # NullError,
     errorText |-> err,
     retryShown |-> err # NullError,
     emptyShown |-> ~ld /\ Len(sorted) = 0,
     cards |-> IF ~ld /\ Len(sorted) > 0 THEN cardsOf(sorted) ELSE <<>>]

viewOf(ld, err, sorted) ==
    [loadingShown |-> ld,
     errorShown |-> err # NullError,
     errorText |-> err,
     retryShown |-> err # NullError,
     emptyShown |-> ~ld /\ err = NullError /\ Len(sorted) = 0,
     cards |-> IF ~ld /\ err = NullError /\ Len(sorted) > 0 THEN cardsOf(sorted) ELSE <<>>]

\* one run of the App function with the given state
RenderWith(res, ld, err, h) ==
    LET r == sortResorts(res, h)
    IN /\ heap' = r.heap
       /\ sortedResorts' = r.ref
       /\ view' = viewOf(ld, err, r.heap[r.ref])

EmptyHeap == [resorts |-> <<>>, copy |-> <<>>]

AppInit ==
    /\ results = NoResults
    /\ loading = TRUE
    /\ error = NullError
    /\ mounted = FALSE
    /\ fetchPc = "idle"
    /\ fetchCount = 0
    /\ rerenders = 0
    /\ document = <<>>
    /\ heap = EmptyHeap
    /\ sortedResorts = "copy"
    /\ view = viewOf(TRUE, NullError, <<>>)

NoCalls ==
    /\ fieldValues = emptyFieldValues
    /\ calls = <<>>

\* no card rendered on its own
NotRendered == [expanded |-> FALSE, rendered |-> FALSE]
NoCard == card = NotRendered

CalcIdle ==
    /\ cameras = <<>>
    /\ called = FALSE
    /\ averages = NotCalled
    /\ NoCalls
    /\ NoCard

InitCalc ==
    /\ cameras \in CameraLists
    /\ called = FALSE
    /\ averages = NotCalled
    /\ NoCalls
    /\ NoCard
    /\ AppInit

CallCalcAverages ==
    /\ ~called
    /\ called' = TRUE
    /\ averages' = IF calcAveragesThrows(cameras) THEN TypeError ELSE calcAverages(cameras)
    /\ UNCHANGED <<cameras, fieldValues, calls, card>>
    /\ UNCHANGED appVars

NextCalc == CallCalcAverages

SpecCalc == InitCalc /\ [][NextCalc]_vars

\* a direct call on a list of the wide cameras
InitWide ==
    /\ cameras \in WideCameraLists
    /\ called = FALSE
    /\ averages = NotCalled
    /\ NoCalls
    /\ NoCard
    /\ AppInit

SpecWide == InitWide /\ [][NextCalc]_vars

\* ------------------------------------------------- a card on its own
\* the camera lists of the resort a card is rendered for
CardCameraLists == CameraLists \cup WideCameraLists

InitCard ==
    /\ cameras \in CardCameraLists
    /\ called = FALSE
    /\ averages = NotCalled
    /\ NoCalls
    /\ NoCard
    /\ AppInit

\* the state a rendered card leaves in card: the expanded flag of useState
\* and what was put on the page
cardState(expanded) ==
    [expanded |-> expanded, rendered |-> TRUE,
     page |-> ResortCard(Resort(1, cameras), 1, expanded)]

\* first render of <ResortCard resort={resort} rank={1} />: useState(false)
RenderCard ==
    /\ ~card.rendered
    /\ card' = cardState(FALSE)
    /\ UNCHANGED <<cameras, called, averages, fieldValues, calls>>
    /\ UNCHANGED appVars

\* onClick={() => setExpanded(!expanded)} and the render that follows
ToggleExpanded ==
    /\ card.rendered
    /\ card' = cardState(~card.expanded)
    /\ UNCHANGED <<cameras, called, averages, fieldValues, calls>>
    /\ UNCHANGED appVars

NextCard == RenderCard \/ ToggleExpanded

SpecCard == InitCard /\ [][NextCard]_vars

\* ------------------------------------------------- sequences of calls
\* the lists the calls of a sequence are made on
CallLists == ResortCameraLists \cup {ExamplePartial, ExampleSnowDepth}

InitCalls == CalcIdle /\ AppInit

\* one more call of calcAverages, on any of the lists
CallAgain ==
    /\ Len(calls) < MaxCalls
    /\ \E list \in CallLists :
          LET r == calcAveragesCall(fieldValues, list)
          IN /\ fieldValues' = r.fieldValues
             /\ calls' = Append(calls, [cameras |-> list, result |-> r.result])
    /\ UNCHANGED <<cameras, called, averages, card>>
    /\ UNCHANGED appVars

NextCalls == CallAgain

SpecCalls == InitCalls /\ [][NextCalls]_vars

\* ---------------------------------------------------------------- the App
Init == CalcIdle /\ AppInit

\* fetchData up to its first await: setLoading(true); setError(null); fetch(DATA_URL)
fetchDataStart ==
    /\ fetchCount < MaxFetches
    /\ fetchCount' = fetchCount + 1
    /\ loading' = TRUE
    /\ error' = NullError
    /\ fetchPc' = "fetch"
    /\ RenderWith(results, TRUE, NullError, heap)
    /\ UNCHANGED <<results, document, rerenders>>

\* useEffect(() => { fetchData(); }, [])
Mount ==
    /\ ~mounted
    /\ mounted' = TRUE
    /\ fetchDataStart
    /\ UNCHANGED calcVars

\* <button onClick={fetchData}>Retry</button>
Retry ==
    /\ view.retryShown
    /\ fetchDataStart
    /\ UNCHANGED <<mounted, calcVars>>

\* catch (err) { setError(...) } finally { setLoading(false) }
fetchDataFails_swallowed(message) ==
    /\ loading' = FALSE
    /\ fetchPc' = "idle"
    /\ RenderWith(results, FALSE, error, heap)
    /\ UNCHANGED <<error, results, document, mounted, fetchCount, rerenders, calcVars>>

fetchDataFails_noFinally(message) ==
    /\ error' = message
    /\ fetchPc' = "idle"
    /\ RenderWith(results, loading, message, heap)
    /\ UNCHANGED <<loading, results, document, mounted, fetchCount, rerenders, calcVars>>

fetchDataFails(message) ==
    /\ error' = message
    /\ loading' = FALSE
    /\ fetchPc' = "idle"
    /\ RenderWith(results, FALSE, message, heap)
    /\ UNCHANGED <<results, document, mounted, fetchCount, rerenders, calcVars>>

\* fetch(DATA_URL) rejects
FetchRejected ==
    /\ fetchPc = "fetch"
    /\ fetchDataFails(FetchRejectedMessage)

\* if (!response.ok) throw new Error(`Failed to fetch: ${response.status}`)
ResponseNotOk ==
    /\ fetchPc = "fetch"
    /\ \E status \in FailureStatuses : fetchDataFails(StatusMessage(status))

\* response.ok: on to await response.json()
ResponseOk ==
    /\ fetchPc = "fetch"
    /\ fetchPc' = "json"
    /\ UNCHANGED <<results, loading, error, mounted, fetchCount, rerenders, document,
                   heap, sortedResorts, view, calcVars>>

\* response.json() rejects
JsonRejected ==
    /\ fetchPc = "json"
    /\ fetchDataFails(JsonErrorMessage)

\* setResults(data); finally setLoading(false)
JsonParsed ==
    /\ fetchPc = "json"
    /\ \E data \in Documents :
          /\ results' = LoadedResults
          /\ document' = data
          /\ loading' = FALSE
          /\ fetchPc' = "idle"
          /\ RenderWith(LoadedResults, FALSE, error, [heap EXCEPT !["resorts"] = data])
    /\ UNCHANGED <<error, mounted, fetchCount, rerenders, calcVars>>

\* the App function runs again on the same state
Render ==
    /\ rerenders < MaxRerenders
    /\ rerenders' = rerenders + 1
    /\ RenderWith(results, loading, error, heap)
    /\ UNCHANGED <<results, loading, error, mounted, fetchPc, fetchCount, document, calcVars>>

Next ==
    \/ Mount
    \/ Retry
    \/ FetchRejected
    \/ ResponseNotOk
    \/ ResponseOk
    \/ JsonRejected
    \/ JsonParsed
    \/ Render

Spec == Init /\ [][Next]_vars

\* the retrieval settles: a pending fetch resolves or rejects, and the body
\* of an OK response parses or fails to
SpecLive ==
    /\ Init /\ [][Next]_vars
    /\ WF_vars(FetchRejected \/ ResponseNotOk \/ ResponseOk)
    /\ WF_vars(JsonRejected \/ JsonParsed)

\* ======================================================================
\* Properties of calcAverages, stated on the raw camera list
\* ======================================================================
HasRating(c) == c.rating.t = "object"

\* camera c holds a number for field f
Contributes(c, f) ==
    /\ HasRating(c)
    /\ IF f = "confidence"
       THEN c.rating.confidence.t = "number"
       ELSE /\ c.rating.categories.t = "object"
            /\ c.rating.categories.m[f].t = "number"

Contribution(c, f) ==
    IF f = "confidence" THEN c.rating.confidence.v ELSE c.rating.categories.m[f].v

ContributorsIn(list, f) == {i \in 1..Len(list) : Contributes(list[i], f)}

RECURSIVE SumContributions(_, _, _)
SumContributions(list, f, idx) ==
    IF idx = {} THEN 0
    ELSE LET i == CHOOSE x \in idx : TRUE
         IN Contribution(list[i], f) + SumContributions(list, f, idx \ {i})

\* the mean of field f over the cameras of list that hold a number for it
MeanOver(list, f) ==
    Rat(SumContributions(list, f, ContributorsIn(list, f)),
        Cardinality(ContributorsIn(list, f)))

RECURSIVE SumMeans(_, _)
SumMeans(list, fields) ==
    IF fields = {} THEN Zero
    ELSE LET f == CHOOSE x \in fields : TRUE
         IN NumAdd(MeanOver(list, f), SumMeans(list, fields \ {f}))

ContributedFields(list) == {f \in FieldNames : ContributorsIn(list, f) # {}}

\* a camera of one of the three kinds C1 lists: no rating, or a rating with
\* a null confidence and no number among its categories
NothingNumeric(c) ==
    \/ ~HasRating(c)
    \/ /\ c.rating.confidence.t = "null"
       /\ \A k \in CategoryKeys : ~Contributes(c, k)

\* C1: when no camera contributes a number (empty list, every rating null or
\* absent, or ratings with null confidence and no numeric category), the
\* result is exactly {composite: 0}, with no other key.
C1_OnlyCompositeZero ==
    (called /\ \A i \in 1..Len(cameras) : NothingNumeric(cameras[i]))
        => averages = [k \in {"composite"} |-> Zero]

C1_Witness ==
    /\ called
    /\ \A i \in 1..Len(cameras) : NothingNumeric(cameras[i])
    /\ \E i \in 1..Len(cameras) : HasRating(cameras[i])
    /\ \E i \in 1..Len(cameras) : cameras[i].rating.t = "undefined"
    /\ averages = [k \in {"composite"} |-> Zero]

\* C2: every field's average is the sum of the numbers contributed for it
\* divided by the number of cameras that contributed one; cameras without a
\* rating or without a number for the field are in neither.
C2_MeanOverContributors ==
    called =>
        /\ \A f \in ContributedFields(cameras) :
              /\ f \in DOMAIN averages
              /\ averages[f].den > 0
              /\ averages[f].num * Cardinality(ContributorsIn(cameras, f))
                   = SumContributions(cameras, f, ContributorsIn(cameras, f)) * averages[f].den
        /\ cameras = ExamplePartial =>
              /\ averages["quality"] = Rat(6, 1)
              /\ averages["weather"] = Rat(6, 1)

C2_Witness ==
    /\ called
    /\ cameras = ExamplePartial
    /\ Cardinality(ContributorsIn(cameras, "weather")) < Len(cameras)
    /\ averages["weather"] = Rat(6, 1)

\* the fields whose means are the terms of composite
CompositeFields(list) == ContributedFields(list) \ {SnowDepthKey}

\* the mean of every contributed number of the composite fields
RECURSIVE SumAll(_, _)
SumAll(list, fields) ==
    IF fields = {} THEN 0
    ELSE LET f == CHOOSE x \in fields : TRUE
         IN SumContributions(list, f, ContributorsIn(list, f)) + SumAll(list, fields \ {f})
RECURSIVE CountAll(_, _)
CountAll(list, fields) ==
    IF fields = {} THEN 0
    ELSE LET f == CHOOSE x \in fields : TRUE
         IN Cardinality(ContributorsIn(list, f)) + CountAll(list, fields \ {f})
FlatMean(list) == Rat(SumAll(list, CompositeFields(list)), CountAll(list, CompositeFields(list)))

\* C3: composite is the sum of the per-field means (snow depth left out)
\* divided by the number of those fields; quality [9, 9] and weather [1]
\* give 5.
C3_MeanOfMeans ==
    called =>
        /\ CompositeFields(cameras) # {} =>
              averages["composite"]
                = NumDiv(SumMeans(cameras, CompositeFields(cameras)),
                         Cardinality(CompositeFields(cameras)))
        /\ cameras = ExampleMeanOfMeans => averages["composite"] = Rat(5, 1)

C3_Witness ==
    /\ called
    /\ cameras = ExampleMeanOfMeans
    /\ averages["composite"] = Rat(5, 1)
    /\ FlatMean(cameras) = Rat(19, 3)

\* the list with the snow-depth entry of camera i set to v (Undefined
\* removes the key)
WithSnowDepth(list, i, v) ==
    [list EXCEPT ![i].rating.categories.m[SnowDepthKey] = v]

SnowDepthEdits == {Undefined, Null, Num(12), Num(40)}

\* C4: snow depth is averaged under its own key and is no term of
\* composite: setting, changing or removing a camera's snow depth leaves
\* composite as it is; {quality: 8, snow depth: 40} gives 40 and 8.
C4_SnowDepthNotInComposite ==
    called =>
        /\ SnowDepthKey \in ContributedFields(cameras) =>
              /\ SnowDepthKey \in DOMAIN averages
              /\ averages[SnowDepthKey] = MeanOver(cameras, SnowDepthKey)
        /\ \A i \in 1..Len(cameras) : \A v \in SnowDepthEdits :
              (HasRating(cameras[i]) /\ cameras[i].rating.categories.t = "object")
                => calcAverages(WithSnowDepth(cameras, i, v))["composite"]
                     = averages["composite"]
        /\ cameras = ExampleSnowDepth =>
              /\ averages[SnowDepthKey] = Rat(40, 1)
              /\ averages["composite"] = Rat(8, 1)

C4_Witness ==
    /\ called
    /\ cameras = ExampleSnowDepth
    /\ averages[SnowDepthKey] = Rat(40, 1)
    /\ averages["composite"] = Rat(8, 1)

\* the categories whose means C5 names as the terms of composite
CategoryFields(list) == ContributedFields(list) \ {SnowDepthKey, "confidence"}

\* C5: composite is the mean of the per-category means only (snow depth
\* excluded); the confidence average is not one of its terms.
C5_CompositeOverCategoriesOnly ==
    (called /\ CategoryFields(cameras) # {})
        => averages["composite"]
             = NumDiv(SumMeans(cameras, CategoryFields(cameras)),
                      Cardinality(CategoryFields(cameras)))

\* C6: the value under "confidence" is the mean of the confidences of the
\* cameras that have a rating with a non-null confidence, under a key of
\* its own next to composite; without such a camera there is no such key.
C6_ConfidenceMean ==
    called =>
        IF ContributorsIn(cameras, "confidence") # {}
        THEN /\ "confidence" \in DOMAIN averages
             /\ "composite" \in DOMAIN averages
             /\ averages["confidence"] = MeanOver(cameras, "confidence")
        ELSE "confidence" \notin DOMAIN averages

C6_Witness ==
    /\ called
    /\ \E i \in 1..Len(cameras) : ~HasRating(cameras[i])
    /\ \E i \in 1..Len(cameras) : Contributes(cameras[i], "confidence")
    /\ averages["confidence"] = Rat(6, 1)
    /\ averages["composite"] # averages["confidence"]

\* ======================================================================
\* Properties of the ranking a render displays
\* ======================================================================
\* the composite of the resort with the given key in the parsed document
CompositeOfKey(key) == calcAverages(document[key].cameras)["composite"]

\* x >= y on numbers
NumGeq(x, y) == NumSubSign(x, y) \in {0, 1}

\* the array the last render sorted
Sorted == heap[sortedResorts]

\* resorts with composites 7, 9, 7 in input order R1, R2, R3
ExampleTie ==
    <<Resort(1, <<Cam(Null, Num(8), Num(6), Num(40))>>),
      Resort(2, <<Cam(Null, Num(9), Undefined, Undefined), Camera(NoRating("null"))>>),
      Resort(3, <<Cam(Num(6), Num(8), Undefined, Undefined)>>)>>

\* C7: the displayed sequence is ordered by composite descending: a resort
\* displayed before another has a composite greater than or equal to it.
C7_DescendingComposite ==
    /\ \A i, j \in 1..Len(view.cards) :
          i < j => NumGeq(CompositeOfKey(view.cards[i].resort_key),
                          CompositeOfKey(view.cards[j].resort_key))
    /\ results.t = "object" =>
          \A i, j \in 1..Len(Sorted) :
             i < j => NumGeq(calcAverages(Sorted[i].cameras)["composite"],
                             calcAverages(Sorted[j].cameras)["composite"])

C7_Witness ==
    /\ Len(view.cards) = 3
    /\ view.cards[1].resort_key = 3
    /\ NumSubSign(CompositeOfKey(3), CompositeOfKey(2)) = 1
    /\ NumSubSign(CompositeOfKey(2), CompositeOfKey(1)) = 1

\* C8: resorts with equal composite are displayed in their input order, the
\* earlier of the input with the lower rank; composites [7, 9, 7] for
\* [R1, R2, R3] give R2 rank 1, R1 rank 2, R3 rank 3.
C8_StableOnTies ==
    /\ \A i, j \in 1..Len(view.cards) :
          (/\ view.cards[i].resort_key < view.cards[j].resort_key
           /\ CompositeOfKey(view.cards[i].resort_key)
                = CompositeOfKey(view.cards[j].resort_key))
             => /\ i < j
                /\ view.cards[i].rank < view.cards[j].rank
    /\ (document = ExampleTie /\ view.cards # <<>>) =>
          /\ [i \in 1..3 |-> view.cards[i].resort_key] = <<2, 1, 3>>
          /\ [i \in 1..3 |-> view.cards[i].rank] = <<1, 2, 3>>

C8_Witness ==
    /\ document = ExampleTie
    /\ CompositeOfKey(1) = Rat(7, 1)
    /\ CompositeOfKey(2) = Rat(9, 1)
    /\ CompositeOfKey(3) = Rat(7, 1)
    /\ Len(view.cards) = 3
    /\ view.cards[2].resort_key = 1
    /\ view.cards[3].resort_key = 3

\* C9: the ranked output is a permutation of the resorts of the document
\* and the ranks are 1..N, the rank being the position in the sorted
\* sequence, also between resorts that tie.
C9_PermutationAndRanks ==
    /\ results.t = "object" =>
          /\ Len(Sorted) = Len(document)
          /\ \A k \in 1..Len(document) :
                Cardinality({i \in 1..Len(Sorted) : Sorted[i] = document[k]}) = 1
    /\ view.cards # <<>> =>
          /\ Len(view.cards) = Len(document)
          /\ \A i \in 1..Len(view.cards) :
                /\ view.cards[i].rank = i
                /\ view.cards[i].resort_key = Sorted[i].resort_key
          /\ {view.cards[i].rank : i \in 1..Len(view.cards)} = 1..Len(document)

C9_Witness ==
    /\ Len(view.cards) = 3
    /\ view.cards[1].resort_key = 2
    /\ CompositeOfKey(1) = CompositeOfKey(3)
    /\ view.cards[3].rank = 3
    /\ document # ExampleTie

\* C10: renders leave the source document as it was parsed: the order of
\* results.resorts and every resort in it; the sort works on a copy.
C10_DocumentUnchanged ==
    /\ results.t = "object" =>
          /\ heap[results.resorts] = document
          /\ sortedResorts # results.resorts
    /\ results.t = "null" => heap["resorts"] = <<>>

C10_Witness ==
    /\ results.t = "object"
    /\ rerenders = MaxRerenders
    /\ Len(document) = 3
    /\ Sorted # document
    /\ heap[results.resorts] = document

\* C12: for every camera list of the document shape (empty, cameras with
\* neither rating nor error, with only an error, ratings without categories
\* or with empty ones, null category values) the call raises no exception
\* and returns a mapping with a numeric composite.
C12_TotalWithNumericComposite ==
    called =>
        /\ averages # TypeError
        /\ "composite" \in DOMAIN averages
        /\ ~IsNaN(averages["composite"])

C12_Witness ==
    /\ called
    /\ \E i \in 1..Len(cameras) : cameras[i] = FailedCamera
    /\ \E i \in 1..Len(cameras) :
          HasRating(cameras[i]) /\ cameras[i].rating.categories.t = "undefined"
    /\ "composite" \in DOMAIN averages
    /\ ~IsNaN(averages["composite"])

\* every confidence in the list is a number or null
ConfidencesTyped(list) ==
    \A i \in 1..Len(list) :
        HasRating(list[i]) => list[i].rating.confidence.t \in {"number", "null"}

\* C13: only numbers are accumulated: a value that is null, missing or not
\* a number is skipped and changes no average, for the confidence as for
\* every entry of the categories.
C13_OnlyNumbersAccumulated ==
    called =>
        \A f \in FieldNames \ {"composite"} :
            IF ContributorsIn(cameras, f) # {}
            THEN f \in DOMAIN averages /\ averages[f] = MeanOver(cameras, f)
            ELSE f \notin DOMAIN averages

\* the fields C14 lets into composite: none stored under the key composite
FieldsBesideComposite(list) == ContributedFields(list) \ {SnowDepthKey, "composite"}

\* C14: a value stored under the key composite is never a term of
\* composite, also when the categories hold a key named composite.
C14_CompositeKeyNotATerm ==
    (called /\ ConfidencesTyped(cameras)) =>
        averages["composite"]
          = IF FieldsBesideComposite(cameras) = {} THEN Zero
            ELSE NumDiv(SumMeans(cameras, FieldsBesideComposite(cameras)),
                        Cardinality(FieldsBesideComposite(cameras)))

WeightedCategories == {"quality", "weather", "visibility", "crowdedness"}

\* 40% snow quality, 25% weather, 20% visibility, 15% crowdedness
WeightedComposite(list) ==
    LET q == MeanOver(list, "quality")
        w == MeanOver(list, "weather")
        v == MeanOver(list, "visibility")
        c == MeanOver(list, "crowdedness")
        part(x, weight) == Rat(x.num * weight, x.den * 100)
    IN NumAdd(NumAdd(part(q, 40), part(w, 25)), NumAdd(part(v, 20), part(c, 15)))

\* C15: the composite the ranking uses is the weighted score of the four
\* categories.
C15_WeightedComposite ==
    (called /\ ConfidencesTyped(cameras) /\ WeightedCategories \subseteq ContributedFields(cameras))
        => averages["composite"] = WeightedComposite(cameras)

\* C16: when a camera has a rating but no field other than snow depth has a
\* contribution, composite is 0 and the snow-depth average is still
\* reported under its own key.
C16_SnowDepthOnly ==
    (/\ called
     /\ \E i \in 1..Len(cameras) : HasRating(cameras[i])
     /\ CompositeFields(cameras) = {})
        => /\ averages["composite"] = Zero
           /\ SnowDepthKey \in ContributedFields(cameras) =>
                 /\ SnowDepthKey \in DOMAIN averages
                 /\ averages[SnowDepthKey] = MeanOver(cameras, SnowDepthKey)

C16_Witness ==
    /\ called
    /\ CompositeFields(cameras) = {}
    /\ SnowDepthKey \in ContributedFields(cameras)
    /\ DOMAIN averages = {SnowDepthKey, "composite"}
    /\ averages[SnowDepthKey] = Rat(40, 1)
    /\ averages["composite"] = Zero

\* the list with its cameras in the order p
Permuted(list, p) == [i \in 1..Len(list) |-> list[p[i]]]

\* C17: the result does not depend on the order of the cameras: every
\* permutation of the list gives the same averages and composite.
C17_OrderIndependent ==
    called =>
        \A p \in Permutations(1..Len(cameras)) :
            calcAverages(Permuted(cameras, p)) = averages

C17_Witness ==
    /\ called
    /\ Len(cameras) = 2
    /\ Contributes(cameras[1], "quality")
    /\ Contributes(cameras[2], "quality")
    /\ Contribution(cameras[1], "quality") # Contribution(cameras[2], "quality")
    /\ Contributes(cameras[1], "weather") # Contributes(cameras[2], "weather")
    /\ calcAverages(<<cameras[2], cameras[1]>>) = averages

\* ======================================================================
\* Properties of sequences of calls
\* ======================================================================
\* C11: two calls on the same camera list, whatever calls on other lists
\* come between them, return mappings with the same keys and the same
\* value for every key.
C11_SameListSameResult ==
    \A i, j \in 1..Len(calls) :
        calls[i].cameras = calls[j].cameras =>
            /\ DOMAIN calls[i].result = DOMAIN calls[j].result
            /\ \A k \in DOMAIN calls[i].result : calls[i].result[k] = calls[j].result[k]

C11_Witness ==
    /\ Len(calls) = 3
    /\ calls[1].cameras = calls[3].cameras
    /\ calls[2].cameras # calls[1].cameras
    /\ ratingsOf(calls[1].cameras) # <<>>
    /\ ratingsOf(calls[2].cameras) # <<>>
    /\ calls[3].result = calls[1].result

\* ======================================================================
\* Properties of fetchData
\* ======================================================================
\* C18: when the retrieval fails (rejected fetch, status not OK, body that
\* does not parse) fetchData sets error to a message and leaves results
\* unchanged, and the page shows that message with a Retry button; Retry
\* clears the error and starts a new retrieval.
C18_FailureThenRetry ==
    [][/\ (FetchRejected \/ ResponseNotOk \/ JsonRejected) =>
             /\ error' # NullError
             /\ results' = results
             /\ heap'["resorts"] = heap["resorts"]
             /\ view'.errorShown
             /\ view'.errorText = error'
             /\ view'.retryShown
       /\ Retry =>
             /\ error' = NullError
             /\ ~view'.errorShown
             /\ fetchPc' = "fetch"
             /\ fetchCount' = fetchCount + 1]_vars

C18_Witness ==
    /\ fetchCount = 2
    /\ fetchPc = "idle"
    /\ error = JsonErrorMessage
    /\ results = NoResults
    /\ view.errorText = JsonErrorMessage
    /\ view.retryShown

\* C19: loading is true from the start of a fetchData invocation, and once
\* the retrieval settles loading is false again, on the success path and
\* on every failure path.
C19_LoadingSetThenCleared ==
    /\ [](fetchPc # "idle" => loading)
    /\ []((fetchPc = "idle" /\ fetchCount > 0) => ~loading)
    /\ (fetchPc # "idle") ~> (fetchPc = "idle" /\ ~loading)

C19_Witness ==
    /\ fetchCount = 3
    /\ fetchPc = "idle"
    /\ ~loading
    /\ results = LoadedResults
    /\ error = NullError

\* the rank the document alone gives resort k: one more than the number of
\* resorts with a greater composite or an equal one earlier in the input
RankInDocument(k) ==
    1 + Cardinality({j \in 1..Len(document) :
                        \/ NumSubSign(CompositeOfKey(j), CompositeOfKey(k)) = 1
                        \/ j < k /\ CompositeOfKey(j) = CompositeOfKey(k)})

\* C20: the composite on a resort's card is the value the resort was ranked
\* by; the averages on the cards, the ranks and the order are those
\* calcAverages gives for the camera lists of the loaded document, on every
\* render, and the composites from rank 1 downward do not increase.
C20_CardMatchesRanking ==
    view.cards # <<>> =>
        /\ Len(view.cards) = Len(document)
        /\ \A i \in 1..Len(view.cards) :
              LET shown == view.cards[i]
              IN /\ shown.resort_key = Sorted[i].resort_key
                 /\ shown.avg["composite"] = calcAverages(Sorted[i].cameras)["composite"]
                 /\ shown.avg = calcAverages(document[shown.resort_key].cameras)
                 /\ shown.rank = RankInDocument(shown.resort_key)
        /\ \A i \in 1..(Len(view.cards) - 1) :
              NumGeq(view.cards[i].avg["composite"], view.cards[i + 1].avg["composite"])

C20_Witness ==
    /\ fetchCount = 2
    /\ rerenders = MaxRerenders
    /\ Len(view.cards) = 3
    /\ document[1].cameras = ExampleMeanOfMeans
    /\ view.cards[2].resort_key = 1
    /\ view.cards[2].avg["composite"] = Rat(5, 1)
    /\ view.cards[1].avg["composite"] = Rat(9, 1)
    /\ view.cards[3].avg["composite"] = Zero

\* ======================================================================
\* Properties of ResortCard
\* ======================================================================
\* the score grid of the card rendered on its own
Tiles == card.page.tiles

\* C21: the score grid of a card never has a tile for composite (nor for
\* snow_depth_inches); when the grid is on the page, confidence and every
\* other averaged field has a tile with its average.
C21_CompositeNeverATile ==
    card.rendered =>
        /\ "composite" \notin DOMAIN Tiles
        /\ SnowDepthKey \notin DOMAIN Tiles
        /\ DOMAIN Tiles \subseteq DOMAIN card.page.avg
        /\ card.expanded =>
              /\ \A f \in ContributedFields(cameras) \ {"composite", SnowDepthKey} :
                    /\ f \in DOMAIN Tiles
                    /\ Tiles[f].text = toFixed1(card.page.avg[f])
              /\ "confidence" \in DOMAIN card.page.avg => "confidence" \in DOMAIN Tiles

C21_Witness ==
    /\ card.rendered
    /\ card.expanded
    /\ "composite" \in ContributedFields(cameras)
    /\ SnowDepthKey \in ContributedFields(cameras)
    /\ DOMAIN Tiles = {"confidence", "quality"}
    /\ Tiles["confidence"].text = toFixed1(Rat(6, 1))

\* ======================================================================
\* Further properties of calcAverages
\* ======================================================================
\* C22: the keys of the result are composite and exactly the fields for
\* which a rated camera supplied a number; every mean is taken over a list
\* with at least one value.
C22_KeysAreContributedFields ==
    (called /\ averages # TypeError) =>
        /\ DOMAIN averages = {"composite"} \cup ContributedFields(cameras)
        /\ \A f \in DOMAIN averages \ {"composite"} :
              Len(fieldValuesOf(ratingsOf(cameras))[f]) > 0

\* the numbers the cameras of list hold for field f
ContributionsOf(list, f) == {Contribution(list[i], f) : i \in ContributorsIn(list, f)}

\* lo <= x <= hi for a number x and integers lo, hi
Within(x, lo, hi) == NumGeq(x, Rat(lo, 1)) /\ NumGeq(Rat(hi, 1), x)

\* every confidence and every category value other than snow depth is in 1..10
ScoresInRange(list) ==
    \A f \in ContributedFields(list) \ {SnowDepthKey} : ContributionsOf(list, f) \subseteq 1..10

\* C23: every field average lies between the smallest and the largest
\* number contributed for the field; composite lies between the smallest and
\* the largest average of the fields other than snow depth; with every such
\* value in 1..10, composite is 0 (no such field) or between 1 and 10,
\* whatever the snow depths are.
C23_AveragesWithinRange ==
    called =>
        /\ \A f \in ContributedFields(cameras) :
              \E lo, hi \in ContributionsOf(cameras, f) : Within(averages[f], lo, hi)
        /\ CompositeFields(cameras) # {} =>
              \E lo, hi \in CompositeFields(cameras) :
                 /\ NumGeq(averages["composite"], MeanOver(cameras, lo))
                 /\ NumGeq(MeanOver(cameras, hi), averages["composite"])
        /\ ScoresInRange(cameras) =>
              IF CompositeFields(cameras) = {}
              THEN averages["composite"] = Zero
              ELSE Within(averages["composite"], 1, 10)

C23_Witness ==
    /\ called
    /\ Len(cameras) = 2
    /\ ContributionsOf(cameras, "quality") = {4, 8}
    /\ ContributionsOf(cameras, SnowDepthKey) = {40}
    /\ ContributionsOf(cameras, "weather") = {6}
    /\ averages["quality"] = Rat(6, 1)
    /\ averages["composite"] = Rat(6, 1)
    /\ ScoresInRange(cameras)

\* C24: only the key snow_depth_inches is left out of composite: the
\* average of every other contributed field, a snow depth stored under
\* snow_depth included, is a term of composite like any score.
C24_ExactKeyExcluded ==
    (called /\ ConfidencesTyped(cameras)) =>
        LET terms == ContributedFields(cameras) \ {SnowDepthKey}
        IN /\ terms # {} =>
                 averages["composite"] = NumDiv(SumMeans(cameras, terms), Cardinality(terms))
           /\ OtherSnowDepthKey \in ContributedFields(cameras) =>
                 /\ OtherSnowDepthKey \in terms
                 /\ averages[OtherSnowDepthKey] = MeanOver(cameras, OtherSnowDepthKey)

C24_Witness ==
    /\ called
    /\ Len(cameras) = 1
    /\ ContributedFields(cameras) = {"quality", SnowDepthKey, OtherSnowDepthKey}
    /\ averages[SnowDepthKey] = Rat(40, 1)
    /\ averages[OtherSnowDepthKey] = Rat(30, 1)
    /\ averages["composite"] = Rat(19, 1)

\* the ratings calcAverages aggregates for the resort of the card
AggregatedRatings == Len(ratingsOf(cameras))

\* C25: the number of cameras the card reports as analyzed is the number of
\* ratings calcAverages aggregates, also for cameras whose rating key is
\* absent; the card never reports an analyzed camera when calcAverages
\* found no rating.
C25_AnalyzedCountMatches ==
    card.rendered =>
        /\ card.page.successfulCameras = AggregatedRatings
        /\ AggregatedRatings = 0 => card.page.successfulCameras = 0

\* ======================================================================
\* Properties of the page's sections
\* ======================================================================
\* C26: the ranked list is on the page only when loading is false and error
\* is null, never with the error message nor while a retrieval is in
\* progress; the empty message only when loading is false, error is null
\* and the loaded document has no resort; the Retry button only when error
\* is set.
C26_SectionsExclusive ==
    /\ view.cards # <<>> =>
          /\ ~loading
          /\ error = NullError
          /\ ~view.errorShown
          /\ ~view.loadingShown
          /\ fetchPc = "idle"
    /\ view.emptyShown =>
          /\ ~loading
          /\ error = NullError
          /\ results.t = "object"
          /\ Len(document) = 0
    /\ view.retryShown => error # NullError

C26_Witness ==
    /\ view.emptyShown
    /\ fetchCount = 2
    /\ results.t = "object"
    /\ Len(document) = 0
    /\ ~view.retryShown

\* the Retry button is on the page only while no fetchData is in flight
RetryOnlyWhenIdle == view.retryShown => fetchPc = "idle"

====
